---- MODULE Spec2Model ----
(***************************************************************************)
(* A model of goworker's worker (worker.go): work() announces the worker,  *)
(* registers with the WaitGroup and starts a goroutine that drains the     *)
(* jobs channel; run() executes one job between a start report and a       *)
(* finish report; start/fail/succeed/finish buffer Redis commands on a     *)
(* borrowed connection and flush them.                                     *)
(*                                                                         *)
(* Strings are TLA+ strings, fmt.Sprintf is string concatenation, the      *)
(* Redis store is a map from key strings to values, and a connection's     *)
(* command buffer is a sequence of commands applied in order by Flush.     *)
(* Job payloads come from JSON decoding, so json.Marshal of the records    *)
(* built from them succeeds; timestamps are the token Now.                 *)
(***************************************************************************)
EXTENDS Integers, Sequences, FiniteSets, TLC

VARIABLES
    pc,       \* pc[w]: where worker w's work()/drain goroutine stands
    job,      \* job[w]: the loop variable `job` of the drain loop
    err,      \* err[w]: run's variable `err`
    conn,     \* conn[w]: the number of pool connections w holds
    free,     \* connections left in the pool
    jobs,     \* the buffered intake channel, oldest first
    closed,   \* the intake channel has been closed by its owner
    sent,     \* number of jobs the upstream has sent so far
    monitor,  \* the sync.WaitGroup counter
    store,    \* the Redis store: key string -> value
    trace     \* trace[w]: history of w's steps, oldest first

vars == <<pc, job, err, conn, free, jobs, closed, sent, monitor, store, trace>>

(***************************************************************************)
(* Bounds of the model.                                                    *)
(***************************************************************************)
MaxJobs == 2
ChanCap == 2
PoolSize == 1
MonitorInit == 0

Workers == {"w1", "w2"}
Queues == {"default"}
Classes == {"Echo", "Nope"}
Namespace == "resque:"
Now == "now"

(***************************************************************************)
(* Collaborators of worker.go.                                             *)
(***************************************************************************)
\* the registry `workers`: the classes that have a work function
workers == {"Echo"}

\* process.String(): the worker's identity
String(w) == w

\* json.Marshal: the JSON object is the record of the marshalled fields
Marshal(v) == [ok |-> TRUE, buffer |-> v]

Last(q) == q[Len(q)]

\* the n-th job the upstream sends carries n as its argument
NoJob == [Queue |-> "", Payload |-> [Class |-> "", Args |-> <<0>>]]
NewJob(n, q, c) == [Queue |-> q, Payload |-> [Class |-> c, Args |-> <<n>>]]
JobId(j) == j.Payload.Args[1]

\* fmt's %v of the argument list
SprintArgs(args) == "[" \o ToString(args[1]) \o "]"

(***************************************************************************)
(* Errors: nil, an ordinary error, or a *WorkerError.                      *)
(***************************************************************************)
nil == [type |-> "nil", message |-> "", Backtrace |-> <<>>]
errorsNew(text) == [type |-> "errorString", message |-> text, Backtrace |-> <<>>]
NewWorkerError(message, backtrace) ==
    [type |-> "WorkerError", message |-> message, Backtrace |-> backtrace]
Error(e) == e.message

ErrConn == errorsNew("connection unavailable")

(***************************************************************************)
(* fmt.Sprint of a recovered panic value, debug.Stack and strings.Split.   *)
(***************************************************************************)
\* the values the work function may panic with: panic(42)
PanicValues == { [t |-> "int", s |-> "", i |-> 42] }

Sprint(r) == IF r.t = "int" THEN ToString(r.i) ELSE r.s

\* debug.Stack(): the text of the stack, as pieces; "\n" ends every line
debugStack == <<"goroutine 7 [running]:", "\n", "goworker.(*worker).run.func2()", "\n">>

RECURSIVE SplitFrom(_, _, _)
SplitFrom(text, sep, line) ==
    IF text = <<>> THEN <<line>>
    ELSE IF Head(text) = sep
         THEN <<line>> \o SplitFrom(Tail(text), sep, "")
         ELSE SplitFrom(Tail(text), sep, line \o Head(text))

\* strings.Split(s, sep)
Split(text, sep) == SplitFrom(text, sep, "")

(***************************************************************************)
(* The Redis connection: Send buffers a command, Flush applies the buffer. *)
(***************************************************************************)
Put(s, k, v) == [x \in DOMAIN s \cup {k} |-> IF x = k THEN v ELSE s[x]]
Del(s, k) == [x \in DOMAIN s \ {k} |-> s[x]]

Apply(s, c) ==
    CASE c.op = "SET"   -> Put(s, c.key, c.val)
      [] c.op = "DEL"   -> Del(s, c.key)
      [] c.op = "INCR"  -> Put(s, c.key, IF c.key \in DOMAIN s THEN s[c.key] + 1 ELSE 1)
      [] c.op = "RPUSH" -> Put(s, c.key, IF c.key \in DOMAIN s THEN Append(s[c.key], c.val)
                                                               ELSE <<c.val>>)
      [] c.op = "SADD"  -> Put(s, c.key, IF c.key \in DOMAIN s THEN s[c.key] \cup {c.val}
                                                               ELSE {c.val})
      [] c.op = "SREM"  -> IF c.key \in DOMAIN s /\ s[c.key] \ {c.val} # {}
                           THEN Put(s, c.key, s[c.key] \ {c.val})
                           ELSE Del(s, c.key)

Send(buf, op, key, val) == Append(buf, [op |-> op, key |-> key, val |-> val])

RECURSIVE Flush(_, _)
Flush(s, buf) == IF Len(buf) = 0 THEN s ELSE Flush(Apply(s, Head(buf)), Tail(buf))

\* the keys worker.go builds with fmt.Sprintf
WorkerKey(w) == Namespace \o "worker:" \o String(w)
FailedKey == Namespace \o "failed"
StatProcessedKey == Namespace \o "stat:processed"
StatProcessedWorkerKey(w) == Namespace \o "stat:processed:" \o String(w)
WorkersKey == Namespace \o "workers"

(***************************************************************************)
(* process.open, process.close and process.fail.                           *)
(***************************************************************************)
open(s, w) == Flush(s, Send(<<>>, "SADD", WorkersKey, String(w)))
close(s, w) == Flush(s, Send(<<>>, "SREM", WorkersKey, String(w)))
processFail(buf, w) == buf

(***************************************************************************)
(* worker.start, worker.fail, worker.succeed, worker.finish.               *)
(***************************************************************************)
\* variant: a start that buffers the SET and returns without flushing
startUnflushed(s, w, j) == s

start(s, w, j) ==
    LET work == [Queue |-> j.Queue, RunAt |-> Now, Payload |-> j.Payload]
        m == Marshal(work)
    IN  IF ~m.ok THEN s
        ELSE Flush(s, Send(<<>>, "SET", WorkerKey(w), m.buffer))

failBacktrace(e) == IF e.type = "WorkerError" THEN e.Backtrace ELSE <<>>

fail(buf, w, j, e) ==
    LET failure == [FailedAt  |-> Now,
                    Payload   |-> j.Payload,
                    Exception |-> "Error",
                    Error     |-> Error(e),
                    Backtrace |-> failBacktrace(e),
                    Worker    |-> String(w),
                    Queue     |-> j.Queue]
        m == Marshal(failure)
    IN  IF ~m.ok THEN buf
        ELSE processFail(Send(buf, "RPUSH", FailedKey, m.buffer), w)

\* variant: a succeed that forgets the per-worker counter
succeedGlobalOnly(buf, w, j) == Send(buf, "INCR", StatProcessedKey, "")

\* variant: a succeed that forgets the global counter
succeedWorkerOnly(buf, w, j) == Send(buf, "INCR", StatProcessedWorkerKey(w), "")

succeed(buf, w, j) ==
    Send(Send(buf, "INCR", StatProcessedKey, ""), "INCR", StatProcessedWorkerKey(w), "")

\* variant: a finish that leaves the heartbeat key in place
finishBufferNoDel(w, j, e) ==
    IF e # nil THEN fail(<<>>, w, j, e) ELSE succeed(<<>>, w, j)

\* variant: a finish that reports a failure and a success at once (no else)
finishBufferBoth(w, j, e) ==
    LET reported == IF e # nil THEN succeed(fail(<<>>, w, j, e), w, j)
                               ELSE succeed(<<>>, w, j)
    IN  Send(reported, "DEL", WorkerKey(w), "")

finishBuffer(w, j, e) ==
    LET reported == IF e # nil THEN fail(<<>>, w, j, e) ELSE succeed(<<>>, w, j)
    IN  Send(reported, "DEL", WorkerKey(w), "")

\* variant: a finish whose report is flushed before the heartbeat delete is sent
finishFlushesReportFirst(w, j, e) ==
    << IF e # nil THEN fail(<<>>, w, j, e) ELSE succeed(<<>>, w, j),
       Send(<<>>, "DEL", WorkerKey(w), "") >>

\* the buffers worker.finish flushes, in order: one conn.Flush(), at its end
finishFlushes(w, j, e) == << finishBuffer(w, j, e) >>

RECURSIVE FlushEach(_, _)
FlushEach(s, buffers) ==
    IF Len(buffers) = 0 THEN s ELSE FlushEach(Flush(s, Head(buffers)), Tail(buffers))

finish(s, w, j, e) == FlushEach(s, finishFlushes(w, j, e))

(***************************************************************************)
(* The connection pool: GetConn lends a connection or reports an error,    *)
(* PutConn returns it.                                                     *)
(***************************************************************************)
GetConn(w) ==
    /\ free > 0
    /\ free' = free - 1
    /\ conn' = [conn EXCEPT ![w] = @ + 1]

GetConnErr(w) == UNCHANGED <<free, conn>>

PutConn(w) ==
    /\ conn[w] > 0
    /\ free' = free + 1
    /\ conn' = [conn EXCEPT ![w] = @ - 1]

Log(w, ev, j, what) ==
    trace' = [trace EXCEPT ![w] = Append(@, [ev |-> ev, id |-> JobId(j), what |-> what])]

(***************************************************************************)
(* The state after construction: no worker has called work().              *)
(***************************************************************************)
Init ==
    /\ pc = [w \in Workers |-> "idle"]
    /\ job = [w \in Workers |-> NoJob]
    /\ err = [w \in Workers |-> nil]
    /\ conn = [w \in Workers |-> 0]
    /\ free = PoolSize
    /\ jobs = <<>>
    /\ closed = FALSE
    /\ sent = 0
    /\ monitor = MonitorInit
    /\ store = [k \in {} |-> 0]
    /\ trace = [w \in Workers |-> <<>>]

(***************************************************************************)
(* The owner of the intake channel.                                        *)
(***************************************************************************)
SendJob ==
    /\ ~closed
    /\ sent < MaxJobs
    /\ Len(jobs) < ChanCap
    /\ \E q \in Queues, c \in Classes :
          jobs' = Append(jobs, NewJob(sent + 1, q, c))
    /\ sent' = sent + 1
    /\ UNCHANGED <<pc, job, err, conn, free, closed, monitor, store, trace>>

CloseJobs ==
    /\ ~closed
    /\ closed' = TRUE
    /\ UNCHANGED <<pc, job, err, conn, free, jobs, sent, monitor, store, trace>>

(***************************************************************************)
(* worker.work, up to the start of the drain goroutine.                    *)
(***************************************************************************)
WorkGetConn(w) ==
    /\ pc[w] = "idle"
    /\ GetConn(w)
    /\ pc' = [pc EXCEPT ![w] = "open"]
    /\ UNCHANGED <<job, err, jobs, closed, sent, monitor, store, trace>>

\* variant: a work() that logs the error and goes on without returning
workConnErrProceeds == "add"

\* work() returns when GetConn fails
workConnErr == "aborted"

WorkGetConnErr(w) ==
    /\ pc[w] = "idle"
    /\ GetConnErr(w)
    /\ pc' = [pc EXCEPT ![w] = workConnErr]
    /\ UNCHANGED <<job, err, jobs, closed, sent, monitor, store, trace>>

WorkOpen(w) ==
    /\ pc[w] = "open"
    /\ store' = open(store, w)
    /\ PutConn(w)
    /\ pc' = [pc EXCEPT ![w] = "add"]
    /\ Log(w, "open", NoJob, "")
    /\ UNCHANGED <<job, err, jobs, closed, sent, monitor>>

\* variant: a work() that leaves monitor.Add(1) to the goroutine it starts
monitorAddLate(m) == m

monitorAdd(m) == m + 1

\* variant: a cleanup without monitor.Done()
monitorDoneMissing(m) == m

monitorDone(m) == m - 1

WorkAdd(w) ==
    /\ pc[w] = "add"
    /\ monitor' = monitorAdd(monitor)
    /\ pc' = [pc EXCEPT ![w] = "range"]
    /\ UNCHANGED <<job, err, conn, free, jobs, closed, sent, store, trace>>

(***************************************************************************)
(* What one flush did to the terminal records of the store.                *)
(***************************************************************************)
Failed(s) == IF FailedKey \in DOMAIN s THEN s[FailedKey] ELSE <<>>
Processed(s) == IF StatProcessedKey \in DOMAIN s THEN s[StatProcessedKey] ELSE 0
ProcessedBy(s, w) ==
    IF StatProcessedWorkerKey(w) \in DOMAIN s THEN s[StatProcessedWorkerKey(w)] ELSE 0
Heartbeat(s, w) == WorkerKey(w) \in DOMAIN s

Observe(s, t) ==
    LET f == Len(Failed(t)) - Len(Failed(s))
        p == Processed(t) - Processed(s)
    IN  CASE f = 0 /\ p = 0 -> "none"
          [] f = 1 /\ p = 0 -> "failed"
          [] f = 0 /\ p = 1 -> "succeeded"
          [] OTHER          -> "mixed"

(***************************************************************************)
(* The drain goroutine of worker.work: for job := range jobs.              *)
(***************************************************************************)
\* variant: a receive that yields the newest element
rangeJobsNewest(ch) == [job |-> Last(ch), rest |-> SubSeq(ch, 1, Len(ch) - 1)]

\* a receive from the channel yields its oldest element
rangeJobs(ch) == [job |-> Head(ch), rest |-> Tail(ch)]

\* variant: a lookup that takes every class for a registered one
lookupAny(j) == TRUE

\* workerFunc, ok := workers[job.Payload.Class]
lookup(j) == j.Payload.Class \in workers

errorLog(j) ==
    "No worker for " \o j.Payload.Class \o " in queue " \o j.Queue
        \o " with args " \o SprintArgs(j.Payload.Args)

Receive(w) ==
    /\ pc[w] = "range"
    /\ Len(jobs) > 0
    /\ LET r == rangeJobs(jobs)
       IN  /\ job' = [job EXCEPT ![w] = r.job]
           /\ jobs' = r.rest
           /\ pc' = [pc EXCEPT ![w] = IF lookup(r.job) THEN "run" ELSE "noWorker"]
           /\ Log(w, "recv", r.job, r.job.Payload.Class)
    /\ err' = [err EXCEPT ![w] = nil]
    /\ UNCHANGED <<conn, free, closed, sent, monitor, store>>

RangeClosed(w) ==
    /\ pc[w] = "range"
    /\ Len(jobs) = 0
    /\ closed
    /\ pc' = [pc EXCEPT ![w] = "deferClose"]
    /\ UNCHANGED <<job, err, conn, free, jobs, closed, sent, monitor, store, trace>>

NoWorkerGetConn(w) ==
    /\ pc[w] = "noWorker"
    /\ GetConn(w)
    /\ pc' = [pc EXCEPT ![w] = "noWorkerFinish"]
    /\ UNCHANGED <<job, err, jobs, closed, sent, monitor, store, trace>>

\* where the goroutine goes when GetConn fails for a job without a worker
noWorkerConnErr == "deferClose"

NoWorkerGetConnErr(w) ==
    /\ pc[w] = "noWorker"
    /\ GetConnErr(w)
    /\ pc' = [pc EXCEPT ![w] = noWorkerConnErr]
    /\ Log(w, "noconn", job[w], "noWorker")
    /\ UNCHANGED <<job, err, jobs, closed, sent, monitor, store>>

\* variant: a finish path that does not give its connection back
finishKeepsConn(w) == UNCHANGED <<free, conn>>

\* PutConn(conn) after w.finish
finishPutConn(w) == PutConn(w)

\* w.finish(conn, job, e) and PutConn(conn), one step for each flush of finish;
\* `first` is the pc before the first flush, `more` the pc between two flushes
Finishing(w, e, first, more) ==
    LET buffers == finishFlushes(w, job[w], e)
        k == IF pc[w] = first THEN 1 ELSE 2
    IN  /\ store' = Flush(store, buffers[k])
        /\ IF k < Len(buffers)
              THEN /\ pc' = [pc EXCEPT ![w] = more]
                   /\ UNCHANGED <<free, conn>>
              ELSE /\ pc' = [pc EXCEPT ![w] = "range"]
                   /\ finishPutConn(w)
        /\ Log(w, "report", job[w], Observe(store, store'))

NoWorkerFinish(w) ==
    /\ pc[w] \in {"noWorkerFinish", "noWorkerFinishMore"}
    /\ Finishing(w, errorsNew(errorLog(job[w])), "noWorkerFinish", "noWorkerFinishMore")
    /\ UNCHANGED <<job, err, jobs, closed, sent, monitor>>

(***************************************************************************)
(* The deferred cleanup of the drain goroutine.                            *)
(***************************************************************************)
CloseGetConn(w) ==
    /\ pc[w] = "deferClose"
    /\ GetConn(w)
    /\ pc' = [pc EXCEPT ![w] = "close"]
    /\ UNCHANGED <<job, err, jobs, closed, sent, monitor, store, trace>>

\* variant: a cleanup whose early return skips monitor.Done()
closeConnErrMonitorSkipped(m) == m

\* the tracker after the cleanup found no connection
closeConnErrMonitor(m) == monitorDone(m)

CloseGetConnErr(w) ==
    /\ pc[w] = "deferClose"
    /\ GetConnErr(w)
    /\ monitor' = closeConnErrMonitor(monitor)
    /\ pc' = [pc EXCEPT ![w] = "done"]
    /\ UNCHANGED <<job, err, jobs, closed, sent, store, trace>>

\* variant: a cleanup that runs inside the loop, after which the goroutine receives again
closeReturnResumes == "range"

\* the goroutine ends when its deferred cleanup returns
closeReturn == "done"

WorkClose(w) ==
    /\ pc[w] = "close"
    /\ store' = close(store, w)
    /\ PutConn(w)
    /\ monitor' = monitorDone(monitor)
    /\ pc' = [pc EXCEPT ![w] = closeReturn]
    /\ Log(w, "close", NoJob, "")
    /\ UNCHANGED <<job, err, jobs, closed, sent>>

(***************************************************************************)
(* worker.run: start report, the work function behind the recover defer,   *)
(* and the finish defer.                                                   *)
(***************************************************************************)
\* what the work function may return
workerFuncReturns ==
    { nil, errorsNew("boom"), NewWorkerError("wrapped", <<"frame">>) }

RunGetConn(w) ==
    /\ pc[w] = "run"
    /\ GetConn(w)
    /\ err' = [err EXCEPT ![w] = nil]
    /\ pc' = [pc EXCEPT ![w] = "start"]
    /\ UNCHANGED <<job, jobs, closed, sent, monitor, store, trace>>

\* variant: a start connection error kept apart from run's err
runConnErrDropped(e) == nil

\* conn, err := GetConn() assigns run's err
runConnErr(e) == e

\* variant: a finish defer registered only after the start connection was got
runConnErrReturnSkipsFinish == "range"

\* run's return on a GetConn error runs the finish defer
runConnErrReturn == "deferFinish"

RunGetConnErr(w) ==
    /\ pc[w] = "run"
    /\ GetConnErr(w)
    /\ err' = [err EXCEPT ![w] = runConnErr(ErrConn)]
    /\ pc' = [pc EXCEPT ![w] = runConnErrReturn]
    /\ Log(w, "noconn", job[w], "start")
    /\ UNCHANGED <<job, jobs, closed, sent, monitor, store>>

\* variant: a start step that keeps its connection over the work function
runStartKeepsConn(w) == UNCHANGED <<free, conn>>

\* PutConn(conn) after w.start
runStartPutConn(w) == PutConn(w)

RunStart(w) ==
    /\ pc[w] = "start"
    /\ store' = start(store, w, job[w])
    /\ runStartPutConn(w)
    /\ pc' = [pc EXCEPT ![w] = "call"]
    /\ Log(w, "start", job[w], "")
    /\ UNCHANGED <<job, err, jobs, closed, sent, monitor>>

CallReturn(w) ==
    /\ pc[w] = "call"
    /\ \E e \in workerFuncReturns :
          /\ err' = [err EXCEPT ![w] = e]
          /\ Log(w, "invoke", job[w], e.type)
    /\ pc' = [pc EXCEPT ![w] = "deferFinish"]
    /\ UNCHANGED <<job, conn, free, jobs, closed, sent, monitor, store>>

\* variant: a recover defer that keeps the message and drops the stack trace
recoverDeferNoStack(r) == [recovered |-> TRUE, err |-> errorsNew(Sprint(r))]

\* the recover defer: a panic with value r becomes a WorkerError
recoverDefer(r) ==
    [recovered |-> TRUE,
     err |-> NewWorkerError(Sprint(r), Split(debugStack, "\n"))]

CallPanic(w) ==
    /\ pc[w] = "call"
    /\ \E r \in PanicValues :
          LET d == recoverDefer(r)
          IN  /\ err' = [err EXCEPT ![w] = d.err]
              /\ pc' = [pc EXCEPT ![w] = IF d.recovered THEN "deferFinish" ELSE "panic"]
              /\ Log(w, "invoke", job[w], "panic " \o r.t)
    /\ UNCHANGED <<job, conn, free, jobs, closed, sent, monitor, store>>

FinishGetConn(w) ==
    /\ pc[w] = "deferFinish"
    /\ GetConn(w)
    /\ pc' = [pc EXCEPT ![w] = "finish"]
    /\ UNCHANGED <<job, err, jobs, closed, sent, monitor, store, trace>>

\* variant: a finish defer whose return on a GetConn error ends the drain loop
finishConnErrEndsLoop == "deferClose"

\* the finish defer returns on a GetConn error, and run returns to the loop
finishConnErr == "range"

FinishGetConnErr(w) ==
    /\ pc[w] = "deferFinish"
    /\ GetConnErr(w)
    /\ pc' = [pc EXCEPT ![w] = finishConnErr]
    /\ Log(w, "noconn", job[w], "finish")
    /\ UNCHANGED <<job, err, jobs, closed, sent, monitor, store>>

RunFinish(w) ==
    /\ pc[w] \in {"finish", "finishMore"}
    /\ Finishing(w, err[w], "finish", "finishMore")
    /\ UNCHANGED <<job, err, jobs, closed, sent, monitor>>

(***************************************************************************)
(* The specification.                                                      *)
(***************************************************************************)
Next ==
    \/ SendJob
    \/ CloseJobs
    \/ \E w \in Workers :
          \/ WorkGetConn(w)
          \/ WorkGetConnErr(w)
          \/ WorkOpen(w)
          \/ WorkAdd(w)
          \/ Receive(w)
          \/ RangeClosed(w)
          \/ NoWorkerGetConn(w)
          \/ NoWorkerGetConnErr(w)
          \/ NoWorkerFinish(w)
          \/ RunGetConn(w)
          \/ RunGetConnErr(w)
          \/ RunStart(w)
          \/ CallReturn(w)
          \/ CallPanic(w)
          \/ FinishGetConn(w)
          \/ FinishGetConnErr(w)
          \/ RunFinish(w)
          \/ CloseGetConn(w)
          \/ CloseGetConnErr(w)
          \/ WorkClose(w)

Spec == Init /\ [][Next]_vars

\* the scheduler runs every started goroutine, GetConn returns, and the work
\* functions of the delivered jobs terminate
Step(w) ==
    \/ WorkOpen(w) \/ WorkAdd(w) \/ Receive(w) \/ RangeClosed(w)
    \/ NoWorkerGetConn(w) \/ NoWorkerGetConnErr(w) \/ NoWorkerFinish(w)
    \/ RunGetConn(w) \/ RunGetConnErr(w) \/ RunStart(w)
    \/ CallReturn(w) \/ CallPanic(w)
    \/ FinishGetConn(w) \/ FinishGetConnErr(w) \/ RunFinish(w)
    \/ CloseGetConn(w) \/ CloseGetConnErr(w) \/ WorkClose(w)

LiveSpec == Spec /\ \A w \in Workers : WF_vars(Step(w))

(***************************************************************************)
(* The same workers on a pool whose GetConn blocks while no connection is  *)
(* free and never returns an error.  A worker that holds a connection goes *)
(* on to its PutConn, and a GetConn that stays servable is served; nothing *)
(* is assumed of the work function, which may never return, nor of the     *)
(* upstream.                                                               *)
(***************************************************************************)
\* the steps of w that call GetConn from the drain goroutine
Acquire(w) ==
    \/ RunGetConn(w) \/ FinishGetConn(w) \/ NoWorkerGetConn(w) \/ CloseGetConn(w)

\* the steps of w between a GetConn and its PutConn
Release(w) ==
    \/ WorkOpen(w) \/ RunStart(w) \/ RunFinish(w) \/ NoWorkerFinish(w) \/ WorkClose(w)

BlockNext ==
    \/ SendJob
    \/ CloseJobs
    \/ \E w \in Workers :
          \/ WorkGetConn(w)
          \/ WorkAdd(w)
          \/ Receive(w)
          \/ RangeClosed(w)
          \/ CallReturn(w)
          \/ CallPanic(w)
          \/ Acquire(w)
          \/ Release(w)

BlockSpec ==
    /\ Init
    /\ [][BlockNext]_vars
    /\ \A w \in Workers : WF_vars(Release(w)) /\ WF_vars(Acquire(w))

(***************************************************************************)
(* Reading the history of a worker.                                        *)
(***************************************************************************)
Ids == 1 .. MaxJobs

\* the positions of w's history that hold event ev of job n
At(w, ev, n) == { i \in DOMAIN trace[w] : trace[w][i].ev = ev /\ trace[w][i].id = n }

\* the pc values at which the drain goroutine exists
Draining ==
    { "range", "run", "start", "call", "deferFinish", "finish", "finishMore",
      "noWorker", "noWorkerFinish", "noWorkerFinishMore", "deferClose", "close", "panic" }

\* the pc values at which w is handling job[w]
InJob ==
    { "run", "start", "call", "deferFinish", "finish", "finishMore",
      "noWorker", "noWorkerFinish", "noWorkerFinishMore" }

\* w received job n and is through with it
Handled(w, n) ==
    /\ At(w, "recv", n) # {}
    /\ ~(pc[w] \in InJob /\ JobId(job[w]) = n)

\* the last step of w's history is the work function of job[w] ending as `what`
JustInvoked(w, what) ==
    /\ Len(trace[w]) > 0
    /\ Last(trace[w]) = [ev |-> "invoke", id |-> JobId(job[w]), what |-> what]

\* the number of flushed finish steps, in all histories, that Observe saw as `what`
Reports(what) ==
    Cardinality(UNION { { <<w, i>> : i \in { k \in DOMAIN trace[w] :
                                              /\ trace[w][k].ev = "report"
                                              /\ trace[w][k].what = what } } :
                        w \in Workers })

(***************************************************************************)
(* C1. Every job a worker received and is through with has exactly one     *)
(* terminal report in the store when every connection it asked for was     *)
(* granted: a success report (the processed counters) or a failure report  *)
(* (one Failure Record), never both in one finish, whether the work        *)
(* function returned nil, returned an error or panicked.  Whatever happens *)
(* to the connections, no job has more than one terminal report, and the   *)
(* reports counted are the ones the store holds.                           *)
(***************************************************************************)
C1_ExactlyOneTerminalOutcome ==
    /\ \A w \in Workers : \A n \in Ids :
          /\ \A i \in At(w, "report", n) : trace[w][i].what \in {"succeeded", "failed"}
          /\ Cardinality(At(w, "report", n)) <= 1
          /\ (Handled(w, n) /\ At(w, "noconn", n) = {})
                => Cardinality(At(w, "report", n)) = 1
          /\ \A v \in Workers \ {w} : At(w, "recv", n) = {} \/ At(v, "recv", n) = {}
    /\ Reports("succeeded") = Processed(store)
    /\ Reports("failed") = Len(Failed(store))

C1_Witness ==
    \E w \in Workers : \E n \in Ids :
        /\ Handled(w, n)
        /\ At(w, "noconn", n) = {}
        /\ \E i \in At(w, "invoke", n) : trace[w][i].what = "panic int"
        /\ \E i \in At(w, "report", n) : trace[w][i].what = "failed"
        /\ \E m \in Ids \ {n} :
              /\ Handled(w, m)
              /\ \E i \in At(w, "report", m) : trace[w][i].what = "succeeded"

(***************************************************************************)
(* C2. A finish step for a job whose registered work function was invoked  *)
(* and returned nil raises the global processed counter and the worker's   *)
(* own processed counter by exactly 1 each, leaves the worker's heartbeat  *)
(* key absent and leaves the failure list as it was.                       *)
(***************************************************************************)
FinishStep(w) == pc[w] = "finish" /\ pc'[w] # "finish"

C2_SuccessReport ==
    [][\A w \in Workers :
          (FinishStep(w) /\ JustInvoked(w, "nil") /\ lookup(job[w])) =>
              /\ Processed(store') = Processed(store) + 1
              /\ ProcessedBy(store', w) = ProcessedBy(store, w) + 1
              /\ \A v \in Workers \ {w} : ProcessedBy(store', v) = ProcessedBy(store, v)
              /\ ~Heartbeat(store', w)
              /\ Failed(store') = Failed(store)]_vars

C2_Witness ==
    \E w \in Workers :
        /\ pc[w] = "range"
        /\ Len(trace[w]) > 1
        /\ trace[w][Len(trace[w]) - 1].ev = "invoke"
        /\ trace[w][Len(trace[w]) - 1].what = "nil"
        /\ Last(trace[w]).ev = "report"
        /\ ProcessedBy(store, w) = 1
        /\ Processed(store) = 1
        /\ ~Heartbeat(store, w)

(***************************************************************************)
(* C3. A finish step for a job whose work function returned an ordinary    *)
(* non-nil error appends exactly one Failure Record, carrying the error's  *)
(* own message and an empty backtrace, leaves the worker's heartbeat key   *)
(* absent and changes neither processed counter.                           *)
(***************************************************************************)
C3_OrdinaryErrorReport ==
    [][\A w \in Workers :
          (FinishStep(w) /\ JustInvoked(w, "errorString")) =>
              /\ Len(Failed(store')) = Len(Failed(store)) + 1
              /\ SubSeq(Failed(store'), 1, Len(Failed(store))) = Failed(store)
              /\ Last(Failed(store')).Error = "boom"
              /\ Last(Failed(store')).Backtrace = <<>>
              /\ Last(Failed(store')).Payload = job[w].Payload
              /\ Last(Failed(store')).Queue = job[w].Queue
              /\ Last(Failed(store')).Worker = w
              /\ ~Heartbeat(store', w)
              /\ Processed(store') = Processed(store)
              /\ \A v \in Workers : ProcessedBy(store', v) = ProcessedBy(store, v)]_vars

C3_Witness ==
    \E w \in Workers :
        /\ pc[w] = "range"
        /\ Len(trace[w]) > 1
        /\ trace[w][Len(trace[w]) - 1].ev = "invoke"
        /\ trace[w][Len(trace[w]) - 1].what = "errorString"
        /\ Last(trace[w]).ev = "report"
        /\ Len(Failed(store)) = 1
        /\ Failed(store)[1].Error = "boom"
        /\ ~Heartbeat(store, w)

(***************************************************************************)
(* C4. A panic of the work function is recovered inside run and never      *)
(* reaches the drain loop.  The finish step that follows appends exactly   *)
(* one Failure Record whose message is the rendered panic value and whose  *)
(* backtrace is not empty, and changes no processed counter.  After the    *)
(* job the worker is back at the receive of its drain loop, where it takes *)
(* the following jobs.                                                     *)
(***************************************************************************)
Panicked(w) == JustInvoked(w, "panic int")

C4_PanicRecovered ==
    [][\A w \in Workers :
          /\ pc'[w] # "panic"
          /\ (pc[w] = "call" /\ pc'[w] # "call") => pc'[w] = "deferFinish"
          /\ (pc[w] = "deferFinish" /\ Panicked(w) /\ pc'[w] # "deferFinish")
                => pc'[w] \in {"finish", "range"}
          /\ (FinishStep(w) /\ Panicked(w)) =>
                /\ pc'[w] = "range"
                /\ Len(Failed(store')) = Len(Failed(store)) + 1
                /\ SubSeq(Failed(store'), 1, Len(Failed(store))) = Failed(store)
                /\ Last(Failed(store')).Error = "42"
                /\ Last(Failed(store')).Backtrace # <<>>
                /\ Last(Failed(store')).Payload = job[w].Payload
                /\ Processed(store') = Processed(store)
                /\ \A v \in Workers : ProcessedBy(store', v) = ProcessedBy(store, v)]_vars

\* a worker reported a panicked job and then received and reported the next job
C4_Witness ==
    \E w \in Workers : \E i \in DOMAIN trace[w] :
        /\ trace[w][i].ev = "invoke"
        /\ trace[w][i].what = "panic int"
        /\ i + 3 \in DOMAIN trace[w]
        /\ trace[w][i + 1] = [ev |-> "report", id |-> trace[w][i].id, what |-> "failed"]
        /\ trace[w][i + 2].ev = "recv"
        /\ trace[w][i + 2].id # trace[w][i].id
        /\ \E k \in DOMAIN Failed(store) :
              /\ Failed(store)[k].Error = "42"
              /\ Len(Failed(store)[k].Backtrace) = 3

(***************************************************************************)
(* C5. For a received job whose class has no registered work function, no  *)
(* work function is invoked and no heartbeat key is written.  Its finish   *)
(* step appends exactly one Failure Record whose message names the class   *)
(* and the queue, changes no processed counter, and leaves the worker at   *)
(* the receive of its drain loop for the next job.                         *)
(***************************************************************************)
NoWorkerFinishStep(w) == pc[w] = "noWorkerFinish" /\ pc'[w] # "noWorkerFinish"

C5_UnregisteredJob ==
    /\ [](\A w \in Workers :
            /\ \A i \in DOMAIN trace[w] :
                  (trace[w][i].ev = "recv" /\ trace[w][i].what \notin {"Echo"}) =>
                      /\ At(w, "start", trace[w][i].id) = {}
                      /\ At(w, "invoke", trace[w][i].id) = {}
            /\ Heartbeat(store, w) => store[WorkerKey(w)].Payload.Class = "Echo")
    /\ [][\A w \in Workers :
            /\ (pc[w] = "noWorker" /\ pc'[w] # "noWorker") => store' = store
            /\ NoWorkerFinishStep(w) =>
                /\ pc'[w] = "range"
                /\ Len(Failed(store')) = Len(Failed(store)) + 1
                /\ SubSeq(Failed(store'), 1, Len(Failed(store))) = Failed(store)
                /\ Last(Failed(store')).Error =
                      "No worker for Nope in queue default with args ["
                          \o ToString(JobId(job[w])) \o "]"
                /\ Last(Failed(store')).Payload = job[w].Payload
                /\ Processed(store') = Processed(store)
                /\ \A v \in Workers : ProcessedBy(store', v) = ProcessedBy(store, v)]_vars

\* a worker reported a job without a worker and then received the next job
C5_Witness ==
    \E w \in Workers : \E i \in DOMAIN trace[w] :
        /\ trace[w][i].ev = "recv"
        /\ trace[w][i].what = "Nope"
        /\ i + 2 \in DOMAIN trace[w]
        /\ trace[w][i + 1] = [ev |-> "report", id |-> trace[w][i].id, what |-> "failed"]
        /\ trace[w][i + 2].ev = "recv"
        /\ Processed(store) = 0
        /\ Len(Failed(store)) >= 1

(***************************************************************************)
(* C6. Once the intake channel is closed, a state follows in which every   *)
(* drain goroutine that was started has terminated and the WaitGroup       *)
(* counter is back at the value it had before any work() call, provided    *)
(* the work functions of the delivered jobs terminate.  (The channel stays *)
(* closed and a goroutine that ended stays ended, so this covers every     *)
(* goroutine started before or after the close.)                           *)
(***************************************************************************)
NoDrain == \A w \in Workers : pc[w] \notin Draining

C6_CloseTerminatesDrain == closed ~> (NoDrain /\ monitor = MonitorInit)

\* the channel was closed after a worker had taken a job, and the worker is done
C6_Witness ==
    \E w \in Workers :
        /\ closed
        /\ pc[w] = "done"
        /\ \E n \in Ids : At(w, "report", n) # {}
        /\ NoDrain
        /\ monitor = MonitorInit

(***************************************************************************)
(* C7. The WaitGroup counter is its initial value plus one for every       *)
(* worker whose drain goroutine exists: work() adds one before the         *)
(* goroutine starts, the goroutine's cleanup takes it away on every exit,  *)
(* also when it gets no connection for close, and the counter never drops  *)
(* below its initial value.                                                *)
(***************************************************************************)
C7_TrackerBalanced ==
    /\ monitor = MonitorInit + Cardinality({ w \in Workers : pc[w] \in Draining })
    /\ monitor >= MonitorInit

\* a drain goroutine ended without a connection for close
C7_Witness ==
    \E w \in Workers :
        /\ pc[w] = "done"
        /\ Len(trace[w]) > 0
        /\ Last(trace[w]).ev # "close"
        /\ \E v \in Workers : pc[v] \in Draining

(***************************************************************************)
(* C8. A worker handles its jobs one at a time and in intake order: it     *)
(* receives them in the order they were sent, every start, invocation and  *)
(* report belongs to the job received last, a job is received only after   *)
(* the finish of the one before was flushed or given up, and the worker's  *)
(* Failure Records stand in the failure list in intake order.              *)
(***************************************************************************)
JobEvents == {"start", "invoke", "report", "noconn"}

\* the position of the last receive before position i of w's history
LastRecv(w, i) ==
    LET before == { k \in 1 .. (i - 1) : trace[w][k].ev = "recv" }
    IN  IF before = {} THEN 0 ELSE CHOOSE k \in before : \A m \in before : m <= k

C8_InOrderOneAtATime ==
    \A w \in Workers :
        /\ \A i, k \in DOMAIN trace[w] :
              (i < k /\ trace[w][i].ev = "recv" /\ trace[w][k].ev = "recv")
                  => trace[w][i].id < trace[w][k].id
        /\ \A i \in DOMAIN trace[w] :
              /\ trace[w][i].ev \in JobEvents =>
                    /\ LastRecv(w, i) # 0
                    /\ trace[w][LastRecv(w, i)].id = trace[w][i].id
              /\ (trace[w][i].ev = "recv" /\ i > 1) =>
                    \/ trace[w][i - 1].ev \in {"open", "report"}
                    \/ trace[w][i - 1].ev = "noconn" /\ trace[w][i - 1].what = "finish"
        /\ \A i, k \in DOMAIN Failed(store) :
              (i < k /\ Failed(store)[i].Worker = w /\ Failed(store)[k].Worker = w)
                  => Failed(store)[i].Payload.Args[1] < Failed(store)[k].Payload.Args[1]

\* one worker took two jobs that were waiting in the channel and reported both
C8_Witness ==
    \E w \in Workers :
        /\ Cardinality({ i \in DOMAIN trace[w] : trace[w][i].ev = "recv" }) = 2
        /\ Cardinality({ i \in DOMAIN trace[w] : trace[w][i].ev = "report" }) = 2
        /\ Len(Failed(store)) = 2
        /\ Failed(store)[1].Worker = w
        /\ Failed(store)[2].Worker = w

(***************************************************************************)
(* C9. When run gets no connection for the start step, the work function   *)
(* is not invoked and no heartbeat key is written; the finish defer still  *)
(* runs with the connection error in err.  As first stated (the job is     *)
(* dropped and nothing is reported for it, whatever later acquisitions     *)
(* do):                                                                    *)
(***************************************************************************)
StartConnFailed(w) ==
    /\ Len(trace[w]) > 0
    /\ Last(trace[w]) = [ev |-> "noconn", id |-> JobId(job[w]), what |-> "start"]

C9_StartConnErrDropsJob ==
    \A w \in Workers : \A n \in Ids :
        (\E i \in At(w, "noconn", n) : trace[w][i].what = "start")
            => /\ At(w, "invoke", n) = {}
               /\ At(w, "report", n) = {}

(***************************************************************************)
(* C9, amended.  When run gets no connection for the start step, the work  *)
(* function is not invoked, no heartbeat key is written and no processed   *)
(* counter changes.  If the finish defer gets no connection either,        *)
(* nothing is reported for the job; if it gets one, the finish step        *)
(* appends exactly one Failure Record carrying the connection error's      *)
(* message and an empty backtrace, and issues the heartbeat delete.        *)
(***************************************************************************)
C9_StartConnErrReportedAsFailure ==
    /\ [](\A w \in Workers : \A n \in Ids :
            (\E i \in At(w, "noconn", n) : trace[w][i].what = "start")
                => /\ At(w, "invoke", n) = {}
                   /\ At(w, "start", n) = {}
                   /\ \A i \in At(w, "report", n) : trace[w][i].what = "failed")
    /\ [][\A w \in Workers :
            /\ (pc[w] = "run" /\ pc'[w] = "deferFinish") => store' = store
            /\ (pc[w] = "deferFinish" /\ StartConnFailed(w) /\ pc'[w] = "range")
                  => store' = store
            /\ (FinishStep(w) /\ StartConnFailed(w)) =>
                  /\ Len(Failed(store')) = Len(Failed(store)) + 1
                  /\ SubSeq(Failed(store'), 1, Len(Failed(store))) = Failed(store)
                  /\ Last(Failed(store')).Error = "connection unavailable"
                  /\ Last(Failed(store')).Backtrace = <<>>
                  /\ Last(Failed(store')).Payload = job[w].Payload
                  /\ ~Heartbeat(store', w)
                  /\ Processed(store') = Processed(store)
                  /\ \A v \in Workers : ProcessedBy(store', v) = ProcessedBy(store, v)]_vars

\* a job whose start connection failed stands in the failure list
C9_Witness ==
    \E w \in Workers : \E i \in DOMAIN trace[w] :
        /\ trace[w][i].ev = "noconn"
        /\ trace[w][i].what = "start"
        /\ i + 1 \in DOMAIN trace[w]
        /\ trace[w][i + 1] = [ev |-> "report", id |-> trace[w][i].id, what |-> "failed"]
        /\ \E k \in DOMAIN Failed(store) :
              /\ Failed(store)[k].Error = "connection unavailable"
              /\ Failed(store)[k].Payload.Args[1] = trace[w][i].id

(***************************************************************************)
(* C10. A drain goroutine that has started ends only after the intake      *)
(* channel was closed: no error met while handling a job (no connection,   *)
(* no registered worker, a work error, a recovered panic) ends the loop    *)
(* while the channel is open.                                              *)
(***************************************************************************)
C10_DrainEndsOnlyAfterClose ==
    \A w \in Workers : pc[w] \in {"deferClose", "close", "done"} => closed

(***************************************************************************)
(* C11. When work() gets no connection it returns at once: the step leaves *)
(* the WaitGroup counter, the channel and the store as they were and       *)
(* starts no drain goroutine.  A worker whose work() returned this way     *)
(* stays where it is for ever, has received no job, holds no connection,   *)
(* and nothing in the store comes from it: it is not in the set of alive   *)
(* workers and has no heartbeat key, no counter and no Failure Record.     *)
(***************************************************************************)
Alive(s) == IF WorkersKey \in DOMAIN s THEN s[WorkersKey] ELSE {}

\* nothing in store s was written by w
WroteNothing(s, w) ==
    /\ String(w) \notin Alive(s)
    /\ ~Heartbeat(s, w)
    /\ ProcessedBy(s, w) = 0
    /\ \A k \in DOMAIN Failed(s) : Failed(s)[k].Worker # String(w)

\* w's work() call gets an answer from GetConn that lends no connection
WorkConnFails(w) == pc[w] = "idle" /\ pc'[w] # "idle" /\ conn'[w] = conn[w]

C11_WorkAbortsOnConnErr ==
    /\ [](\A w \in Workers :
            pc[w] = "aborted" =>
                /\ trace[w] = <<>>
                /\ job[w] = NoJob
                /\ conn[w] = 0
                /\ WroteNothing(store, w))
    /\ [][\A w \in Workers :
            /\ WorkConnFails(w) =>
                  /\ pc'[w] = "aborted"
                  /\ monitor' = monitor
                  /\ jobs' = jobs
                  /\ store' = store
                  /\ trace'[w] = <<>>
            /\ pc[w] = "aborted" => pc'[w] = "aborted"]_vars

\* one work() call returned without a connection while another worker drained
\* the channel and reported a job
C11_Witness ==
    \E w \in Workers :
        /\ pc[w] = "aborted"
        /\ sent = MaxJobs
        /\ jobs = <<>>
        /\ \E v \in Workers \ {w} :
              /\ pc[v] \in Draining
              /\ \E n \in Ids : At(v, "report", n) # {}
        /\ monitor = MonitorInit + 1

(***************************************************************************)
(* C12. A worker holds at most one connection, and holds one only between  *)
(* a GetConn of its own and the PutConn that follows the step the          *)
(* connection was got for (open, start, finish, close).  It holds none     *)
(* where it asks for a connection, none while it waits at the receive of   *)
(* the drain loop, none while the work function executes, and none when    *)
(* it has terminated, so that it put back as many connections as it got.   *)
(* The pool and the workers together hold exactly the pool's connections.  *)
(***************************************************************************)
\* the pc values between a GetConn and its PutConn
Holding ==
    { "open", "start", "finish", "finishMore", "noWorkerFinish", "noWorkerFinishMore", "close" }

\* the pc values at which the next step is a GetConn
Acquiring == { "idle", "run", "deferFinish", "noWorker", "deferClose" }

RECURSIVE Held(_)
Held(W) == IF W = {} THEN 0 ELSE LET w == CHOOSE x \in W : TRUE IN conn[w] + Held(W \ {w})

C12_OneConnectionPerStep ==
    /\ \A w \in Workers :
          /\ conn[w] \in {0, 1}
          /\ conn[w] = 1 <=> pc[w] \in Holding
          /\ pc[w] \in Acquiring \cup {"add", "range", "call", "done", "aborted"} => conn[w] = 0
    /\ free + Held(Workers) = PoolSize
    /\ free >= 0

\* one worker executes a work function without a connection, after another, which
\* had got and put back the connections of a whole job, terminated
C12_Witness ==
    \E w \in Workers :
        /\ pc[w] = "call"
        /\ conn[w] = 0
        /\ free = PoolSize
        /\ \E v \in Workers \ {w} :
              /\ pc[v] = "done"
              /\ conn[v] = 0
              /\ \E n \in Ids : At(v, "report", n) # {}
              /\ Last(trace[v]).ev = "close"

(***************************************************************************)
(* C13. Closing the intake channel moves no worker: a worker that is       *)
(* handling a job when the channel is closed, or takes a buffered job      *)
(* after it, stays counted by the WaitGroup and has not announced its      *)
(* shutdown.  A worker leaves a job only through its finish step, flushed  *)
(* or given up for want of a connection; the work function that was        *)
(* invoked ends by returning or panicking and nothing else takes the       *)
(* worker out of it.  So a worker that is in its cleanup or has terminated *)
(* has, for every job it received, a report or a finish step that got no   *)
(* connection, and the WaitGroup counter drops only when a cleanup ends.   *)
(***************************************************************************)
Cleanup == {"deferClose", "close", "done"}

\* the finish step of job n was attempted by w: flushed, or given up without a connection
FinishAttempted(w, n) ==
    \/ At(w, "report", n) # {}
    \/ \E i \in At(w, "noconn", n) : trace[w][i].what \in {"finish", "noWorker"}

C13_CloseDoesNotInterrupt ==
    /\ [](\A w \in Workers :
            /\ pc[w] \in InJob =>
                  /\ monitor >= MonitorInit + 1
                  /\ \A i \in DOMAIN trace[w] : trace[w][i].ev # "close"
            /\ pc[w] \in Cleanup =>
                  \A n \in Ids :
                      /\ At(w, "recv", n) # {} => FinishAttempted(w, n)
                      /\ At(w, "start", n) # {} => At(w, "invoke", n) # {})
    /\ [][/\ closed' # closed => (pc' = pc /\ job' = job /\ monitor' = monitor /\ store' = store)
          /\ monitor' < monitor =>
                \E w \in Workers : pc[w] \in {"deferClose", "close"} /\ pc'[w] = "done"
          /\ \A w \in Workers :
                /\ (pc[w] \in InJob /\ pc'[w] \notin InJob) =>
                      /\ pc[w] \in {"finish", "noWorkerFinish", "deferFinish", "noWorker"}
                      /\ FinishAttempted(w, JobId(job[w]))'
                /\ (pc[w] = "call" /\ pc'[w] # "call") =>
                      /\ pc'[w] = "deferFinish"
                      /\ At(w, "invoke", JobId(job[w]))' # {}]_vars

\* the channel is closed and empty while a work function executes, and the worker
\* is still counted and has announced nothing
C13_Witness ==
    \E w \in Workers :
        /\ closed
        /\ jobs = <<>>
        /\ pc[w] = "call"
        /\ Heartbeat(store, w)
        /\ monitor >= MonitorInit + 1
        /\ \A i \in DOMAIN trace[w] : trace[w][i].ev # "close"
        /\ \E v \in Workers \ {w} : pc[v] = "done"

(***************************************************************************)
(* C14. The history of a worker whose work() got its connection is: open,  *)
(* once and first; then the events of its jobs; then close, at most once   *)
(* and last, when the worker has terminated.  Every heartbeat key,         *)
(* counter and Failure Record of a worker was written after its open.  A   *)
(* terminated worker takes no further step, and the store changes only in  *)
(* a step of a worker that holds a connection for open, start, finish or   *)
(* close.  A worker that has not got the connection of work() has an       *)
(* empty history.                                                          *)
(***************************************************************************)
Events(w, ev) == { i \in DOMAIN trace[w] : trace[w][i].ev = ev }

C14_AnnouncementOrder ==
    /\ [](\A w \in Workers :
            /\ pc[w] \in {"idle", "open", "aborted"} => trace[w] = <<>>
            /\ pc[w] \in Draining \cup {"add", "done"} => Events(w, "open") = {1}
            /\ Cardinality(Events(w, "close")) <= 1
            /\ Events(w, "close") # {} =>
                  /\ Events(w, "close") = {Len(trace[w])}
                  /\ pc[w] = "done"
            /\ Events(w, "open") = {} => WroteNothing(store, w))
    /\ [][/\ store' # store =>
                \E w \in Workers :
                    /\ pc[w] \in {"open", "start", "finish", "noWorkerFinish", "close"}
                    /\ pc'[w] # pc[w]
                    /\ Len(trace'[w]) = Len(trace[w]) + 1
          /\ \A w \in Workers :
                /\ pc[w] = "done" => (pc'[w] = "done" /\ trace'[w] = trace[w])
                /\ (pc[w] = "close" /\ pc'[w] # "close") =>
                      /\ pc'[w] = "done"
                      /\ Last(trace'[w]).ev = "close"]_vars

\* a worker announced itself, reported two jobs, announced its end and terminated
C14_Witness ==
    \E w \in Workers :
        /\ pc[w] = "done"
        /\ Len(trace[w]) > 5
        /\ trace[w][1].ev = "open"
        /\ Last(trace[w]).ev = "close"
        /\ Cardinality(Events(w, "report")) = 2
        /\ Heartbeat(store, w) = FALSE
        /\ Processed(store) + Len(Failed(store)) = 2

(***************************************************************************)
(* C15. While the work function of a job executes, and until the finish    *)
(* step that follows it, the store holds the worker's heartbeat key with   *)
(* that job's queue and payload: start flushed it before the call.  The    *)
(* heartbeat key of a worker goes away only in a finish step of that       *)
(* worker, which comes after the work function returned or panicked, and   *)
(* it is absent whenever the worker stands at the receive of its drain     *)
(* loop right after a finish step that had a connection.                   *)
(***************************************************************************)
\* the work function of job[w] was invoked and its finish step has not been taken
Executing(w) ==
    \/ pc[w] = "call"
    \/ pc[w] \in {"deferFinish", "finish"} /\ Len(trace[w]) > 0 /\ Last(trace[w]).ev = "invoke"

C15_HeartbeatCoversExecution ==
    /\ [](\A w \in Workers :
            /\ Executing(w) =>
                  /\ Heartbeat(store, w)
                  /\ store[WorkerKey(w)].Payload = job[w].Payload
                  /\ store[WorkerKey(w)].Queue = job[w].Queue
                  /\ At(w, "start", JobId(job[w])) # {}
            /\ (pc[w] = "range" /\ Len(trace[w]) > 0 /\ Last(trace[w]).ev = "report")
                  => ~Heartbeat(store, w))
    /\ [][\A w \in Workers :
            /\ (pc[w] = "start" /\ pc'[w] = "call") =>
                  /\ Heartbeat(store', w)
                  /\ store'[WorkerKey(w)].Payload = job[w].Payload
            /\ (Heartbeat(store, w) /\ ~Heartbeat(store', w)) =>
                  /\ pc[w] \in {"finish", "noWorkerFinish"}
                  /\ pc'[w] = "range"
                  /\ ~Executing(w)']_vars

\* a worker that reported its first job executes the work function of its second
C15_Witness ==
    \E w \in Workers :
        /\ pc[w] = "call"
        /\ JobId(job[w]) = 2
        /\ At(w, "report", 1) # {}
        /\ Heartbeat(store, w)
        /\ store[WorkerKey(w)].Payload.Args = <<2>>

(***************************************************************************)
(* C16. A finish step is one flush: in the one step that takes the worker  *)
(* from finish back to the receive of its loop, the store gets the whole   *)
(* of what finish buffered, the report and the delete of the heartbeat     *)
(* key.  So every step that appends a Failure Record of a worker or raises *)
(* its processed counter leaves that worker's heartbeat key absent, and    *)
(* while the store holds the heartbeat key of a worker for a job, it holds *)
(* no terminal report of that worker for that job.                         *)
(***************************************************************************)
\* store t has a terminal record of w that store s has not
NewRecord(s, t, w) ==
    \/ ProcessedBy(t, w) > ProcessedBy(s, w)
    \/ /\ Len(Failed(t)) > Len(Failed(s))
       /\ Last(Failed(t)).Worker = String(w)

C16_FinishIsOneFlush ==
    /\ [](\A w \in Workers :
            Heartbeat(store, w) =>
                /\ At(w, "report", store[WorkerKey(w)].Payload.Args[1]) = {}
                /\ \A k \in DOMAIN Failed(store) :
                      Failed(store)[k].Worker = String(w)
                          => Failed(store)[k].Payload # store[WorkerKey(w)].Payload)
    /\ [][\A w \in Workers :
            /\ FinishStep(w) =>
                  /\ pc'[w] = "range"
                  /\ store' = finish(store, w, job[w], err[w])
            /\ NoWorkerFinishStep(w) =>
                  /\ pc'[w] = "range"
                  /\ store' = finish(store, w, job[w], errorsNew(errorLog(job[w])))
            /\ NewRecord(store, store', w) =>
                  /\ ~Heartbeat(store', w)
                  /\ pc[w] \in {"finish", "noWorkerFinish"}
                  /\ pc'[w] = "range"]_vars

\* a finish step reported a job whose work function returned a *WorkerError, and
\* took the heartbeat key that start had written away in the same flush
C16_Witness ==
    \E w \in Workers : \E n \in Ids :
        /\ pc[w] = "range"
        /\ At(w, "start", n) # {}
        /\ Last(trace[w]) = [ev |-> "report", id |-> n, what |-> "failed"]
        /\ \E i \in At(w, "invoke", n) : trace[w][i].what = "WorkerError"
        /\ Last(Failed(store)).Backtrace = <<"frame">>
        /\ Last(Failed(store)).Worker = String(w)
        /\ ~Heartbeat(store, w)

(***************************************************************************)
(* C17. When the finish defer of run gets no connection, that step leaves  *)
(* the store as it was (no counter, no Failure Record, the heartbeat key   *)
(* untouched) and takes the worker back to the receive of its drain loop.  *)
(* The job has no report then or later, in the history or in the store,    *)
(* and its finish is asked for a connection only that once.                *)
(***************************************************************************)
\* the finish defer of w gets an answer from GetConn that lends no connection
FinishConnFails(w) == pc[w] = "deferFinish" /\ pc'[w] # "deferFinish" /\ conn'[w] = conn[w]

\* the positions of w's history where the finish defer of job n got no connection
FinishNoConn(w, n) == { i \in At(w, "noconn", n) : trace[w][i].what = "finish" }

C17_FinishConnErrSkipsReport ==
    /\ [](\A w \in Workers : \A n \in Ids :
            FinishNoConn(w, n) # {} =>
                /\ Cardinality(FinishNoConn(w, n)) = 1
                /\ At(w, "report", n) = {}
                /\ \A k \in DOMAIN Failed(store) : Failed(store)[k].Payload.Args # <<n>>
                /\ \A i \in FinishNoConn(w, n) :
                      i < Len(trace[w]) => trace[w][i + 1].ev \in {"recv", "close"})
    /\ [][\A w \in Workers :
            FinishConnFails(w) =>
                /\ store' = store
                /\ pc'[w] = "range"
                /\ conn' = conn
                /\ free' = free
                /\ FinishNoConn(w, JobId(job[w]))' # {}]_vars

\* a job whose work function ran was left unreported, its heartbeat key stayed,
\* and the worker received the next job
C17_Witness ==
    \E w \in Workers : \E i \in DOMAIN trace[w] :
        /\ i > 1
        /\ trace[w][i] = [ev |-> "noconn", id |-> 1, what |-> "finish"]
        /\ trace[w][i - 1].ev = "invoke"
        /\ i + 1 = Len(trace[w])
        /\ trace[w][i + 1].ev = "recv"
        /\ trace[w][i + 1].id = 2
        /\ Heartbeat(store, w)
        /\ store[WorkerKey(w)].Payload.Args = <<1>>
        /\ Processed(store) = 0
        /\ Failed(store) = <<>>

(***************************************************************************)
(* C18. work() adds one to the WaitGroup in the step that starts the drain *)
(* goroutine and ends the call, so a goroutine that exists is counted from *)
(* its first moment: the counter is at least its initial value plus the    *)
(* number of goroutines that exist.  Once every work() call has returned,  *)
(* a counter of zero, which is what Wait waits for, means that no drain    *)
(* goroutine exists.  The steps of work() after its GetConn are always     *)
(* enabled and touch neither the channel nor a job: work() returns without *)
(* waiting for a job.                                                      *)
(***************************************************************************)
\* the pc values at which the work() call of a worker has not returned
InWork == {"idle", "open", "add"}

Drains == Cardinality({ w \in Workers : pc[w] \in Draining })

C18_AddBeforeSpawn ==
    /\ [](/\ monitor >= MonitorInit + Drains
          /\ ((\A w \in Workers : pc[w] \notin InWork) /\ monitor = 0) => NoDrain
          /\ \A w \in Workers :
                /\ pc[w] = "open" => ENABLED WorkOpen(w)
                /\ pc[w] = "add" => ENABLED WorkAdd(w))
    /\ [][\A w \in Workers :
            /\ (pc[w] = "add" /\ pc'[w] # "add") =>
                  /\ pc'[w] = "range"
                  /\ monitor' = monitor + 1
            /\ (pc[w] \in InWork /\ pc'[w] # pc[w]) =>
                  /\ jobs' = jobs
                  /\ job' = job
                  /\ pc'[w] \in InWork \cup {"range", "aborted"}]_vars

\* every work() call has returned before any job was sent, and both goroutines
\* are counted
C18_Witness ==
    /\ sent = 0
    /\ ~closed
    /\ \A w \in Workers : pc[w] = "range"
    /\ monitor = MonitorInit + Cardinality(Workers)

(***************************************************************************)
(* C19. In every reachable state of the store, whatever the interleaving   *)
(* of the workers' reports, the global processed counter is the sum of the *)
(* workers' own processed counters, and the global processed counter plus  *)
(* the length of the failure list is at most the number of jobs that       *)
(* workers have received from the channel.                                 *)
(***************************************************************************)
RECURSIVE SumProcessedBy(_, _)
SumProcessedBy(s, W) ==
    IF W = {} THEN 0
    ELSE LET w == CHOOSE x \in W : TRUE
         IN  ProcessedBy(s, w) + SumProcessedBy(s, W \ {w})

RECURSIVE Received(_)
Received(W) ==
    IF W = {} THEN 0
    ELSE LET w == CHOOSE x \in W : TRUE
         IN  Cardinality(Events(w, "recv")) + Received(W \ {w})

C19_CountersConsistent ==
    /\ Processed(store) = SumProcessedBy(store, Workers)
    /\ Processed(store) + Len(Failed(store)) <= Received(Workers)
    /\ Received(Workers) = sent - Len(jobs)

\* two workers each reported a success
C19_Witness ==
    /\ \A w \in Workers : ProcessedBy(store, w) = 1
    /\ Processed(store) = Cardinality(Workers)
    /\ Received(Workers) = Cardinality(Workers)

(***************************************************************************)
(* C20. On a pool of PoolSize connections whose GetConn blocks, a worker   *)
(* holds no connection where it calls GetConn and none while its work      *)
(* function executes, and whenever the pool is empty some worker holds a   *)
(* connection and its next step, which gives the connection back, is       *)
(* enabled.  So every GetConn a drain goroutine waits in is granted, also  *)
(* when other workers never come back from their work functions.           *)
(***************************************************************************)
\* the drain goroutine of w waits in GetConn
Waiting(w) == pc[w] \in Acquiring \ {"idle"}

C20_NoConnectionDeadlock ==
    /\ [](/\ \A w \in Workers :
                /\ pc[w] \in Acquiring => conn[w] = 0
                /\ pc[w] = "call" => conn[w] = 0
                /\ pc[w] \in Holding => (conn[w] = 1 /\ ENABLED Release(w))
          /\ free = 0 => \E v \in Workers : pc[v] \in Holding
          /\ free + Held(Workers) = PoolSize)
    /\ \A w \in Workers : Waiting(w) ~> (conn[w] = 1)

\* one worker is inside its work function while the other holds the last
\* connection of the pool for the finish step of its job
C20_Witness ==
    \E w \in Workers : \E v \in Workers \ {w} :
        /\ pc[w] = "call"
        /\ conn[w] = 0
        /\ pc[v] = "finish"
        /\ conn[v] = 1
        /\ free = PoolSize - 1

====
